---- MODULE Spec2Model ----
(***************************************************************************)
(* SpotifySession (src/spotapi/session.py): a JSON file holding an ordered *)
(* list of credential records, with the four static methods setup, load,   *)
(* list_sessions and remove.  Every method is modelled statement by        *)
(* statement, one action per file-system access, so that the same actions  *)
(* serve one caller (Spec, SpecFresh) and two racing callers (SpecConc).   *)
(***************************************************************************)
EXTENDS Integers, Sequences, FiniteSets, TLC

\* Longest record list of a file that exists before the first call.
MaxInitLen == 2

\* Most writes (setup, remove) of a run that starts without a file.
MaxWrites == 3

\* The callers of the model; caller 2 only acts under SpecConc.
Callers == {1, 2}

(***************************************************************************)
(* Python values.  A str is a sequence of one-character strings, a list a  *)
(* sequence of values, a dict a function from its keys to values.          *)
(***************************************************************************)
PyNone == [t |-> "none"]

PyNum == [t |-> "num"]

PyStr(s) == [t |-> "str", v |-> s]

PyList(items) == [t |-> "list", v |-> items]

PyDict(d) == [t |-> "dict", v |-> d]

IsSpace(ch) == ch = " "

\* str.strip(): drop the leading and the trailing whitespace.
RECURSIVE LStrip(_)
LStrip(s) == IF s # <<>> /\ IsSpace(Head(s)) THEN LStrip(Tail(s)) ELSE s

RECURSIVE RStrip(_)
RStrip(s) ==
    IF s # <<>> /\ IsSpace(s[Len(s)]) THEN RStrip(SubSeq(s, 1, Len(s) - 1)) ELSE s

Strip(s) == RStrip(LStrip(s))

(***************************************************************************)
(* JSON documents, and json.dump / json.load between them and Python       *)
(* values.                                                                 *)
(***************************************************************************)
RECURSIVE json_dump(_)
json_dump(v) ==
    CASE v.t = "none" -> [j |-> "null"]
      [] v.t = "num"  -> [j |-> "number"]
      [] v.t = "str"  -> [j |-> "string", chars |-> v.v]
      [] v.t = "list" -> [j |-> "array", elems |-> [i \in 1..Len(v.v) |-> json_dump(v.v[i])]]
      [] v.t = "dict" -> [j |-> "object", members |-> [k \in DOMAIN v.v |-> json_dump(v.v[k])]]

RECURSIVE json_parse(_)
json_parse(d) ==
    CASE d.j = "null"   -> PyNone
      [] d.j = "number" -> PyNum
      [] d.j = "string" -> PyStr(d.chars)
      [] d.j = "array"  -> PyList([i \in 1..Len(d.elems) |-> json_parse(d.elems[i])])
      [] d.j = "object" -> PyDict([k \in DOMAIN d.members |-> json_parse(d.members[k])])

\* Outcomes of a statement that may raise.
Return(v) == [ok |-> TRUE, value |-> v]

Raise(exc) == [ok |-> FALSE, exc |-> exc]

(***************************************************************************)
(* The file at the session path: absent, or present with a content that is *)
(* either a JSON document or text json.load rejects ("" after open(.,"w")  *)
(* truncated it, "garbage" for any other text that is not JSON).           *)
(***************************************************************************)
Absent == [exists |-> FALSE]

TextFile(raw) == [exists |-> TRUE, json |-> FALSE, raw |-> raw]

JsonFile(doc) == [exists |-> TRUE, json |-> TRUE, doc |-> doc]

\* Mutant: text that is not JSON is read as an empty list.
json_load_Lenient(f) ==
    IF ~f.exists THEN Raise("FileNotFoundError")
    ELSE IF ~f.json THEN Return(PyList(<<>>))
    ELSE Return(json_parse(f.doc))

\* open(session_file, "r") followed by json.load(f).
json_load(f) ==
    IF ~f.exists THEN Raise("FileNotFoundError")
    ELSE IF ~f.json THEN Raise("JSONDecodeError")
    ELSE Return(json_parse(f.doc))

\* open(session_file, "w"): the file is created or truncated.
open_w == TextFile("")

\* json.dump(value, f) and the close of the with block.
write_json(value) == JsonFile(json_dump(value))

(***************************************************************************)
(* The Python expressions of the four methods.                             *)
(***************************************************************************)
\* Some enumeration of a finite set of keys (a dict iterates over its keys).
RECURSIVE SeqOfSet(_)
SeqOfSet(S) ==
    IF S = {} THEN <<>>
    ELSE LET k == CHOOSE k \in S : TRUE IN <<k>> \o SeqOfSet(S \ {k})

\* "for s in v": a list yields its items, a str its characters, a dict its
\* keys (as str values); anything else raises TypeError.
Iterable(v) == v.t \in {"list", "str", "dict"}

Iter(v) ==
    CASE v.t = "list" -> v.v
      [] v.t = "str"  -> [i \in 1..Len(v.v) |-> PyStr(<<v.v[i]>>)]
      [] v.t = "dict" -> LET ks == SeqOfSet(DOMAIN v.v)
                         IN  [i \in 1..Len(ks) |-> PyStr(<<ks[i]>>)]

\* s.get(key, default); only a dict has the method (AttributeError otherwise).
HasGet(s) == s.t = "dict"

Get(s, key, default) == IF key \in DOMAIN s.v THEN s.v[key] ELSE default

\* The record setup builds from its arguments (session_data[0]).
NewRecord(identifier, sp_dc, sp_key) ==
    PyDict([identifier |-> PyStr(identifier),
            password   |-> PyStr(<<>>),
            cookies    |-> PyDict([sp_dc  |-> PyStr(Strip(sp_dc)),
                                   sp_key |-> PyStr(Strip(sp_key))])])

\* Mutants of the comprehension: no filter at all; a record without
\* identifier taken for a match; only the first match dropped; nothing kept.
Others_KeepsAll(sessions, identifier) ==
    IF ~Iterable(sessions) THEN Raise("TypeError")
    ELSE LET items == Iter(sessions) IN
         IF \E i \in 1..Len(items) : ~HasGet(items[i]) THEN Raise("AttributeError")
         ELSE Return(PyList(items))

Others_DropsUnlabelled(sessions, identifier) ==
    IF ~Iterable(sessions) THEN Raise("TypeError")
    ELSE LET items == Iter(sessions) IN
         IF \E i \in 1..Len(items) : ~HasGet(items[i]) THEN Raise("AttributeError")
         ELSE Return(PyList(SelectSeq(items,
                  LAMBDA s : Get(s, "identifier", PyStr(identifier)) # PyStr(identifier))))

Others_DropsFirst(sessions, identifier) ==
    IF ~Iterable(sessions) THEN Raise("TypeError")
    ELSE LET items == Iter(sessions)
             Hits == {i \in 1..Len(items) :
                         HasGet(items[i])
                         /\ Get(items[i], "identifier", PyNone) = PyStr(identifier)}
         IN  IF \E i \in 1..Len(items) : ~HasGet(items[i]) THEN Raise("AttributeError")
             ELSE IF Hits = {} THEN Return(PyList(items))
             ELSE LET h == CHOOSE h \in Hits : \A k \in Hits : h <= k
                  IN  Return(PyList(SubSeq(items, 1, h - 1)
                                    \o SubSeq(items, h + 1, Len(items))))

Others_DropsAll(sessions, identifier) ==
    IF ~Iterable(sessions) THEN Raise("TypeError")
    ELSE LET items == Iter(sessions) IN
         IF \E i \in 1..Len(items) : ~HasGet(items[i]) THEN Raise("AttributeError")
         ELSE Return(PyList(<<>>))

\* [s for s in sessions if s.get("identifier") != identifier]
Others(sessions, identifier) ==
    IF ~Iterable(sessions) THEN Raise("TypeError")
    ELSE LET items == Iter(sessions) IN
         IF \E i \in 1..Len(items) : ~HasGet(items[i]) THEN Raise("AttributeError")
         ELSE Return(PyList(SelectSeq(items,
                  LAMBDA s : Get(s, "identifier", PyNone) # PyStr(identifier))))

\* Mutant: the new record is put first.
Extend_Front(existing, record) == PyList(<<record>> \o existing.v)

\* existing.extend(session_data)
Extend(existing, record) == PyList(Append(existing.v, record))

\* len(v) of a list, a str or a dict.
PyLen(v) == IF v.t = "dict" THEN Cardinality(DOMAIN v.v) ELSE Len(v.v)

\* Mutant: the scan goes through the whole list and keeps the last match.
FirstMatch_Last(sessions, identifier) ==
    IF ~Iterable(sessions) THEN Raise("TypeError")
    ELSE LET items == Iter(sessions)
             Hits == {i \in 1..Len(items) :
                         HasGet(items[i])
                         /\ Get(items[i], "identifier", PyNone) = PyStr(identifier)}
         IN  IF \E i \in 1..Len(items) : ~HasGet(items[i]) THEN Raise("AttributeError")
             ELSE IF Hits = {} THEN Return(PyNone)
             ELSE LET h == CHOOSE h \in Hits : \A k \in Hits : k <= h
                  IN  Return(items[h])

\* next((s for s in sessions if s.get("identifier") == identifier), None):
\* the scan is lazy, it stops at the first match.
FirstMatch(sessions, identifier) ==
    IF ~Iterable(sessions) THEN Raise("TypeError")
    ELSE LET items == Iter(sessions)
             Hit(i) == HasGet(items[i])
                       /\ Get(items[i], "identifier", PyNone) = PyStr(identifier)
             Stops == {i \in 1..Len(items) : ~HasGet(items[i]) \/ Hit(i)}
         IN  IF Stops = {} THEN Return(PyNone)
             ELSE LET i == CHOOSE i \in Stops : \A k \in Stops : i <= k
                  IN  IF Hit(i) THEN Return(items[i]) ELSE Raise("AttributeError")

\* Mutant: the message names no identifier.
Available_Nothing(sessions) == PyList(<<>>)

\* [s.get("identifier") for s in sessions], after a scan that found no match
\* (so sessions is iterable and every item has get).
Available(sessions) ==
    LET items == Iter(sessions)
    IN  PyList([i \in 1..Len(items) |-> Get(items[i], "identifier", PyNone)])

\* Mutant: s["identifier"] in place of s.get("identifier", "?").
Identifiers_Strict(sessions) ==
    IF ~Iterable(sessions) THEN Raise("TypeError")
    ELSE LET items == Iter(sessions) IN
         IF \E i \in 1..Len(items) : ~HasGet(items[i]) THEN Raise("AttributeError")
         ELSE IF \E i \in 1..Len(items) : "identifier" \notin DOMAIN items[i].v
         THEN Raise("KeyError")
         ELSE Return(PyList([i \in 1..Len(items) |-> items[i].v.identifier]))

\* [s.get("identifier", "?") for s in sessions]
Identifiers(sessions) ==
    IF ~Iterable(sessions) THEN Raise("TypeError")
    ELSE LET items == Iter(sessions) IN
         IF \E i \in 1..Len(items) : ~HasGet(items[i]) THEN Raise("AttributeError")
         ELSE Return(PyList([i \in 1..Len(items) |->
                                Get(items[i], "identifier", PyStr(<<"?">>))]))

(***************************************************************************)
(* Login.from_cookies(match, cfg) is outside this module: it builds a      *)
(* client from the record it is given, or fails in its own way.            *)
(***************************************************************************)
from_cookies(dump) == {Return([login_from |-> dump]), Raise("LoginError")}

(***************************************************************************)
(* State.                                                                  *)
(*   file          the file at the session path                            *)
(*   pc            each caller's position ("idle" between calls)           *)
(*   call          the method a caller is in, or was last in, and its      *)
(*                 arguments                                               *)
(*   existing      setup's local list                                      *)
(*   new_sessions  remove's local list                                     *)
(*   match         load's local record                                     *)
(*   handed        the record Login.from_cookies received in this call     *)
(*   result        how the caller's last call ended                        *)
(*   pre           the file as it was when the call began                  *)
(*   alone         whether no other caller has been in a call since this   *)
(*                 caller's call began                                     *)
(*   hist          the writes (setup, remove) done so far, in order        *)
(*   logging       what hist keeps: "all" writes (and then a run holds at  *)
(*                 most MaxWrites of them), the "last" one, or none ("off")*)
(***************************************************************************)
VARIABLES file, pc, call, existing, new_sessions, match, handed, result, pre, alone, hist, logging

vars == <<file, pc, call, existing, new_sessions, match, handed, result, pre, alone, hist, logging>>

\* Arguments of the calls.
IdentifierInputs == {<<"x">>, <<"y">>}

DcInputs == {<<"k">>, <<" ", "k">>, <<"k", " ", "k", " ">>, <<" ">>}

KeyInputs == {<<"q">>, <<" ", "q", "q", " ">>}

\* Items of a file written by hand before the first call: two different
\* records of one identifier (one with a password), a record without
\* identifier, and an item that is no record.
InitItems ==
    { PyDict([identifier |-> PyStr(<<"x">>),
              password   |-> PyStr(<<"p">>),
              cookies    |-> PyDict([sp_dc |-> PyStr(<<"o">>), sp_key |-> PyStr(<<"o">>)])]),
      PyDict([identifier |-> PyStr(<<"x">>),
              cookies    |-> PyDict([sp_dc |-> PyStr(<<"n">>), sp_key |-> PyStr(<<"n">>)])]),
      PyDict([password |-> PyStr(<<>>)]),
      PyNum }

RECURSIVE SeqsUpTo(_, _)
SeqsUpTo(S, n) ==
    IF n = 0 THEN {<<>>}
    ELSE LET shorter == SeqsUpTo(S, n - 1)
         IN  shorter \cup {Append(q, x) : q \in shorter, x \in S}

InitFiles ==
    {Absent, TextFile("garbage")}
    \cup {write_json(v) : v \in {PyNum, PyNone, PyStr(<<>>), PyStr(<<"a">>),
                                   PyDict(<<>>), PyDict([a |-> PyNum])}}
    \cup {write_json(PyList(q)) : q \in SeqsUpTo(InitItems, MaxInitLen)}

NoCall == [op |-> "none"]

NoResult == [ok |-> FALSE, exc |-> "none"]

InitCallers ==
    /\ pc = [c \in Callers |-> "idle"]
    /\ call = [c \in Callers |-> NoCall]
    /\ existing = [c \in Callers |-> PyNone]
    /\ new_sessions = [c \in Callers |-> PyNone]
    /\ match = [c \in Callers |-> PyNone]
    /\ handed = [c \in Callers |-> PyNone]
    /\ result = [c \in Callers |-> NoResult]
    /\ pre = [c \in Callers |-> Absent]
    /\ alone = [c \in Callers |-> TRUE]

Init == file \in InitFiles /\ InitCallers /\ hist = <<>> /\ logging = "last"

\* A call begins: the arguments are bound, the locals are fresh.
Begin(c, op, identifier, sp_dc, sp_key) ==
    /\ pc[c] = "idle"
    /\ (logging = "all" /\ op \in {"setup", "remove"}) => Len(hist) < MaxWrites
    /\ pc' = [pc EXCEPT ![c] = op \o ":exists"]
    /\ call' = [call EXCEPT ![c] = [op |-> op, identifier |-> identifier,
                                    sp_dc |-> sp_dc, sp_key |-> sp_key]]
    /\ existing' = [existing EXCEPT ![c] = PyList(<<>>)]
    /\ new_sessions' = [new_sessions EXCEPT ![c] = PyNone]
    /\ match' = [match EXCEPT ![c] = PyNone]
    /\ handed' = [handed EXCEPT ![c] = PyNone]
    /\ result' = [result EXCEPT ![c] = NoResult]
    /\ pre' = [pre EXCEPT ![c] = file]
    /\ alone' = [d \in Callers |-> IF d = c THEN \A e \in Callers \ {c} : pc[e] = "idle"
                                    ELSE alone[d] /\ pc[d] = "idle"]
    /\ UNCHANGED <<file, hist, logging>>

\* A call ends: the locals go, the outcome stays.
End(c, outcome) ==
    /\ pc' = [pc EXCEPT ![c] = "idle"]
    /\ result' = [result EXCEPT ![c] = outcome]
    /\ existing' = [existing EXCEPT ![c] = PyNone]
    /\ new_sessions' = [new_sessions EXCEPT ![c] = PyNone]
    /\ match' = [match EXCEPT ![c] = PyNone]

Goto(c, label) == pc' = [pc EXCEPT ![c] = label]

\* The entry of the write caller c is doing, and hist with it.
Write(c) == [op |-> call[c].op, identifier |-> call[c].identifier]

Logged(c) ==
    CASE logging = "all"  -> Append(hist, Write(c))
      [] logging = "last" -> <<Write(c)>>
      [] logging = "off"  -> hist

(***************************************************************************)
(* setup(sp_dc, sp_key, identifier)                                        *)
(***************************************************************************)
SetupCall(c, sp_dc, sp_key, identifier) == Begin(c, "setup", identifier, sp_dc, sp_key)

\* if session_file.exists():
SetupExists(c) ==
    /\ pc[c] = "setup:exists"
    /\ Goto(c, IF file.exists THEN "setup:read" ELSE "setup:open")
    /\ UNCHANGED <<file, call, existing, new_sessions, match, handed, result, pre, alone, hist, logging>>

\* try: existing = json.load(f); existing = [others]
\* except (json.JSONDecodeError, IOError): existing = []
SetupRead(c) ==
    /\ pc[c] = "setup:read"
    /\ LET loaded == json_load(file)
           kept   == Others(loaded.value, call[c].identifier)
       IN  IF ~loaded.ok
           THEN /\ existing' = [existing EXCEPT ![c] = PyList(<<>>)]
                /\ Goto(c, "setup:open")
                /\ UNCHANGED <<new_sessions, match, result>>
           ELSE IF kept.ok
           THEN /\ existing' = [existing EXCEPT ![c] = kept.value]
                /\ Goto(c, "setup:open")
                /\ UNCHANGED <<new_sessions, match, result>>
           ELSE End(c, kept)
    /\ UNCHANGED <<file, call, handed, pre, alone, hist, logging>>

\* existing.extend(session_data); with open(session_file, "w") as f:
SetupOpen(c) ==
    /\ pc[c] = "setup:open"
    /\ existing' = [existing EXCEPT ![c] =
           Extend(@, NewRecord(call[c].identifier, call[c].sp_dc, call[c].sp_key))]
    /\ file' = open_w
    /\ Goto(c, "setup:dump")
    /\ UNCHANGED <<call, new_sessions, match, handed, result, pre, alone, hist, logging>>

\* Mutant: the file object is never closed, what was dumped stays in its buffer.
SetupDump_Unflushed(c) ==
    /\ pc[c] = "setup:dump"
    /\ hist' = Logged(c)
    /\ Goto(c, "load:exists")
    /\ UNCHANGED <<file, call, existing, new_sessions, match, handed, result, pre, alone, logging>>

\* json.dump(existing, f, indent=4); then return SpotifySession.load(...)
SetupDump(c) ==
    /\ pc[c] = "setup:dump"
    /\ file' = write_json(existing[c])
    /\ hist' = Logged(c)
    /\ Goto(c, "load:exists")
    /\ UNCHANGED <<call, existing, new_sessions, match, handed, result, pre, alone, logging>>

(***************************************************************************)
(* load(identifier), called directly or as the last statement of setup     *)
(***************************************************************************)
LoadCall(c, identifier) == Begin(c, "load", identifier, <<>>, <<>>)

\* if not session_file.exists(): raise FileNotFoundError(...)
LoadExists(c) ==
    /\ pc[c] = "load:exists"
    /\ IF file.exists
       THEN Goto(c, "load:read") /\ UNCHANGED <<existing, new_sessions, match, result>>
       ELSE End(c, Raise("FileNotFoundError"))
    /\ UNCHANGED <<file, call, handed, pre, alone, hist, logging>>

\* sessions = json.load(f); match = next(...); if match is None: raise KeyError
LoadRead(c) ==
    /\ pc[c] = "load:read"
    /\ LET loaded == json_load(file)
           found  == FirstMatch(loaded.value, call[c].identifier)
       IN  IF ~loaded.ok THEN End(c, loaded)
           ELSE IF ~found.ok THEN End(c, found)
           ELSE IF found.value = PyNone
           THEN End(c, [ok |-> FALSE, exc |-> "KeyError",
                        available |-> Available(loaded.value)])
           ELSE /\ match' = [match EXCEPT ![c] = found.value]
                /\ Goto(c, "load:factory")
                /\ UNCHANGED <<existing, new_sessions, result>>
    /\ UNCHANGED <<file, call, handed, pre, alone, hist, logging>>

\* Mutant: when the client cannot be built, setup puts back the file it found.
LoadFactory_RollsBack(c) ==
    /\ pc[c] = "load:factory"
    /\ handed' = [handed EXCEPT ![c] = match[c]]
    /\ \E outcome \in from_cookies(match[c]) :
           /\ End(c, outcome)
           /\ file' = IF ~outcome.ok /\ call[c].op = "setup" THEN pre[c] ELSE file
    /\ UNCHANGED <<call, pre, alone, hist, logging>>

\* return Login.from_cookies(match, cfg)
LoadFactory(c) ==
    /\ pc[c] = "load:factory"
    /\ handed' = [handed EXCEPT ![c] = match[c]]
    /\ \E outcome \in from_cookies(match[c]) : End(c, outcome)
    /\ UNCHANGED <<file, call, pre, alone, hist, logging>>

(***************************************************************************)
(* list_sessions()                                                         *)
(***************************************************************************)
ListCall(c) == Begin(c, "list", <<>>, <<>>, <<>>)

\* Mutant: a missing file is created, holding the empty list.
ListExists_Creates(c) ==
    /\ pc[c] = "list:exists"
    /\ IF file.exists
       THEN /\ Goto(c, "list:read")
            /\ UNCHANGED <<file, existing, new_sessions, match, result>>
       ELSE /\ file' = write_json(PyList(<<>>))
            /\ End(c, Return(PyList(<<>>)))
    /\ UNCHANGED <<call, handed, pre, alone, hist, logging>>

\* if not session_file.exists(): return []
ListExists(c) ==
    /\ pc[c] = "list:exists"
    /\ IF file.exists
       THEN Goto(c, "list:read") /\ UNCHANGED <<existing, new_sessions, match, result>>
       ELSE End(c, Return(PyList(<<>>)))
    /\ UNCHANGED <<file, call, handed, pre, alone, hist, logging>>

\* sessions = json.load(f); return [s.get("identifier", "?") for s in sessions]
ListRead(c) ==
    /\ pc[c] = "list:read"
    /\ LET loaded == json_load(file)
       IN  IF ~loaded.ok THEN End(c, loaded) ELSE End(c, Identifiers(loaded.value))
    /\ UNCHANGED <<file, call, handed, pre, alone, hist, logging>>

(***************************************************************************)
(* remove(identifier)                                                      *)
(***************************************************************************)
RemoveCall(c, identifier) == Begin(c, "remove", identifier, <<>>, <<>>)

\* if not session_file.exists(): raise FileNotFoundError(...)
RemoveExists(c) ==
    /\ pc[c] = "remove:exists"
    /\ IF file.exists
       THEN Goto(c, "remove:read") /\ UNCHANGED <<existing, new_sessions, match, result>>
       ELSE End(c, Raise("FileNotFoundError"))
    /\ UNCHANGED <<file, call, handed, pre, alone, hist, logging>>

\* Mutant: the length check is missing, remove always goes on to write.
RemoveRead_NoCheck(c) ==
    /\ pc[c] = "remove:read"
    /\ LET loaded == json_load(file)
           kept   == Others(loaded.value, call[c].identifier)
       IN  IF ~loaded.ok THEN End(c, loaded)
           ELSE IF ~kept.ok THEN End(c, kept)
           ELSE /\ new_sessions' = [new_sessions EXCEPT ![c] = kept.value]
                /\ Goto(c, "remove:open")
                /\ UNCHANGED <<existing, match, result>>
    /\ UNCHANGED <<file, call, handed, pre, alone, hist, logging>>

\* sessions = json.load(f); new_sessions = [others];
\* if len(new_sessions) == len(sessions): raise KeyError(...)
RemoveRead(c) ==
    /\ pc[c] = "remove:read"
    /\ LET loaded == json_load(file)
           kept   == Others(loaded.value, call[c].identifier)
       IN  IF ~loaded.ok THEN End(c, loaded)
           ELSE IF ~kept.ok THEN End(c, kept)
           ELSE IF PyLen(kept.value) = PyLen(loaded.value) THEN End(c, Raise("KeyError"))
           ELSE /\ new_sessions' = [new_sessions EXCEPT ![c] = kept.value]
                /\ Goto(c, "remove:open")
                /\ UNCHANGED <<existing, match, result>>
    /\ UNCHANGED <<file, call, handed, pre, alone, hist, logging>>

\* with open(session_file, "w") as f:
RemoveOpen(c) ==
    /\ pc[c] = "remove:open"
    /\ file' = open_w
    /\ Goto(c, "remove:dump")
    /\ UNCHANGED <<call, existing, new_sessions, match, handed, result, pre, alone, hist, logging>>

\* Mutant: a store left empty is deleted.
RemoveDump_Unlinks(c) ==
    /\ pc[c] = "remove:dump"
    /\ file' = IF new_sessions[c].v = <<>> THEN Absent ELSE write_json(new_sessions[c])
    /\ hist' = Logged(c)
    /\ End(c, Return(PyNone))
    /\ UNCHANGED <<call, handed, pre, alone, logging>>

\* json.dump(new_sessions, f, indent=4)
RemoveDump(c) ==
    /\ pc[c] = "remove:dump"
    /\ file' = write_json(new_sessions[c])
    /\ hist' = Logged(c)
    /\ End(c, Return(PyNone))
    /\ UNCHANGED <<call, handed, pre, alone, logging>>

(***************************************************************************)
(* Specifications.                                                         *)
(***************************************************************************)
\* The statements of a call in progress.
Step(c) ==
    \/ SetupExists(c) \/ SetupRead(c) \/ SetupOpen(c) \/ SetupDump(c)
    \/ LoadExists(c) \/ LoadRead(c) \/ LoadFactory(c)
    \/ ListExists(c) \/ ListRead(c)
    \/ RemoveExists(c) \/ RemoveRead(c) \/ RemoveOpen(c) \/ RemoveDump(c)

\* A caller begins any call with any arguments.
AnyCall(c) ==
    \/ \E a \in DcInputs, b \in KeyInputs, id \in IdentifierInputs : SetupCall(c, a, b, id)
    \/ \E id \in IdentifierInputs : LoadCall(c, id)
    \/ ListCall(c)
    \/ \E id \in IdentifierInputs : RemoveCall(c, id)

\* One caller, one call after the other, on any file.
Next == AnyCall(1) \/ Step(1)

Spec == Init /\ [][Next]_vars

\* One caller, starting without a file, every write logged.
InitFresh == file = Absent /\ InitCallers /\ hist = <<>> /\ logging = "all"

SpecFresh == InitFresh /\ [][Next]_vars

\* Two callers on the same file, their statements interleaved in any order;
\* nothing in the code serialises them.
ConcCall(c) ==
    \/ \E id \in IdentifierInputs : SetupCall(c, <<"k">>, <<"q">>, id)
    \/ \E id \in IdentifierInputs : LoadCall(c, id)
    \/ ListCall(c)
    \/ \E id \in IdentifierInputs : RemoveCall(c, id)

InitConc ==
    file \in {Absent, write_json(PyList(<<>>))} /\ InitCallers /\ hist = <<>> /\ logging = "off"

NextConc == \E c \in Callers : ConcCall(c) \/ Step(c)

SpecConc == InitConc /\ [][NextConc]_vars

(***************************************************************************)
(* Vocabulary of the properties.                                           *)
(***************************************************************************)
\* The file parses as a JSON array of objects: the store the spec describes.
IsStore(f) ==
    /\ f.exists /\ f.json /\ f.doc.j = "array"
    /\ \A i \in 1..Len(f.doc.elems) : f.doc.elems[i].j = "object"

\* The file exists and is not such an array.
Malformed(f) == f.exists /\ ~IsStore(f)

\* The file exists and is not JSON at all.
InvalidJson(f) == f.exists /\ ~f.json

\* The records of a store, in file order.
Records(f) == json_parse(f.doc).v

\* A record's identifier, or None when it has none.
IdentOf(r) == IF "identifier" \in DOMAIN r.v THEN r.v.identifier ELSE PyNone

\* The identifiers of a store, in file order.
Idents(f) == [i \in 1..Len(Records(f)) |-> IdentOf(Records(f)[i])]

\* The records of a store whose identifier is / is not id.
RecordsOf(f, id) == SelectSeq(Records(f), LAMBDA r : IdentOf(r) = PyStr(id))

RecordsNotOf(f, id) == SelectSeq(Records(f), LAMBDA r : IdentOf(r) # PyStr(id))

\* s is a with its surrounding whitespace removed: a = spaces \o s \o spaces,
\* and s neither begins nor ends with whitespace.
IsStripped(a, s) ==
    \E i, j \in 0..Len(a) :
        /\ i + j <= Len(a)
        /\ s = SubSeq(a, i + 1, Len(a) - j)
        /\ \A k \in 1..i : IsSpace(a[k])
        /\ \A k \in (Len(a) - j + 1)..Len(a) : IsSpace(a[k])
        /\ s # <<>> => ~IsSpace(s[1]) /\ ~IsSpace(s[Len(s)])

\* r is the record the spec describes for the arguments of call cl.
IsRecordOf(r, cl) ==
    /\ r.t = "dict" /\ DOMAIN r.v = {"identifier", "password", "cookies"}
    /\ r.v.identifier = PyStr(cl.identifier)
    /\ r.v.password = PyStr(<<>>)
    /\ r.v.cookies.t = "dict" /\ DOMAIN r.v.cookies.v = {"sp_dc", "sp_key"}
    /\ r.v.cookies.v.sp_dc.t = "str" /\ IsStripped(cl.sp_dc, r.v.cookies.v.sp_dc.v)
    /\ r.v.cookies.v.sp_key.t = "str" /\ IsStripped(cl.sp_key, r.v.cookies.v.sp_key.v)

\* Caller c is between calls and its last call was op.
Finished(c, op) == pc[c] = "idle" /\ call[c].op = op

\* The call ended by raising exc.
Raised(c, exc) == ~result[c].ok /\ result[c].exc = exc

\* setup ran to the end of its own statements: it returned a client, or the
\* client factory failed.
SetupRan(c) == Finished(c, "setup") /\ (result[c].ok \/ Raised(c, "LoginError"))

(***************************************************************************)
(* C1.  Round trip: on every prior state of the file (absent, malformed,   *)
(* or any list of records), setup(a, b, id) hands Login.from_cookies the   *)
(* record {identifier: id, cookies: {sp_dc: a.strip(), sp_key: b.strip()}} *)
(* and returns the handle built from it, and a load(id) that follows hands *)
(* over that same record.                                                  *)
(***************************************************************************)
C1_RoundTrip ==
    \A c \in Callers :
        /\ Finished(c, "setup") =>
               /\ IsRecordOf(handed[c], call[c])
               /\ result[c].ok => result[c].value = [login_from |-> handed[c]]
               /\ IsStore(file) /\ Len(RecordsOf(file, call[c].identifier)) = 1
        /\ (Finished(c, "load") /\ IsStore(pre[c])
            /\ Len(RecordsOf(pre[c], call[c].identifier)) = 1) =>
               handed[c] = RecordsOf(pre[c], call[c].identifier)[1]

\* What remains of C1 where setup does not raise: on an absent file, on a
\* file that is not JSON and on a list of records the round trip holds.
RoundTripOnStores ==
    \A c \in Callers :
        (Finished(c, "setup") /\ (~pre[c].exists \/ InvalidJson(pre[c]) \/ IsStore(pre[c]))) =>
            /\ IsRecordOf(handed[c], call[c])
            /\ result[c].ok => result[c].value = [login_from |-> handed[c]]
            /\ IsStore(file) /\ Len(RecordsOf(file, call[c].identifier)) = 1
            /\ RecordsOf(file, call[c].identifier)[1] = handed[c]

(***************************************************************************)
(* C2.  Identifier uniqueness: starting without a file, after any setup    *)
(* and remove calls the file holds at most one record per identifier; a    *)
(* setup for an identifier already stored leaves exactly one record for    *)
(* it, with the secrets of that call, and list_sessions reports each       *)
(* identifier as often as the file holds it, so at most once.              *)
(***************************************************************************)
NoDuplicates(q) == \A i, j \in 1..Len(q) : i < j => q[i] # q[j]

Count(q, x) == Cardinality({i \in 1..Len(q) : q[i] = x})

C2_UniqueIdentifiers ==
    /\ ~file.exists \/ file = open_w \/ IsStore(file)
    /\ IsStore(file) => NoDuplicates(Idents(file))
    /\ \A c \in Callers :
        /\ Finished(c, "setup") =>
               /\ IsStore(file)
               /\ Len(RecordsOf(file, call[c].identifier)) = 1
               /\ IsRecordOf(RecordsOf(file, call[c].identifier)[1], call[c])
        /\ (Finished(c, "list") /\ IsStore(pre[c])) =>
               /\ result[c].ok /\ NoDuplicates(result[c].value.v)
               /\ \A id \in IdentifierInputs :
                      Count(result[c].value.v, PyStr(id)) = Len(RecordsOf(pre[c], id))

\* A setup has replaced a record of its identifier that held other secrets.
C2_Witness ==
    \E c \in Callers :
        /\ Finished(c, "setup") /\ IsStore(pre[c])
        /\ Len(RecordsOf(pre[c], call[c].identifier)) = 1
        /\ ~IsRecordOf(RecordsOf(pre[c], call[c].identifier)[1], call[c])
        /\ Len(Records(pre[c])) = 2

(***************************************************************************)
(* C3.  Isolation: on a file that is a list of records, setup(.., x) and a *)
(* successful remove(x) leave the records of every other identifier as     *)
(* they were (identifier, cookies, password) and in the same order.        *)
(***************************************************************************)
C3_Isolation ==
    \A c \in Callers :
        /\ (Finished(c, "setup") /\ IsStore(pre[c])) =>
               /\ IsStore(file)
               /\ RecordsNotOf(file, call[c].identifier)
                      = RecordsNotOf(pre[c], call[c].identifier)
        /\ (Finished(c, "remove") /\ result[c].ok) =>
               /\ IsStore(pre[c]) /\ IsStore(file)
               /\ RecordsNotOf(file, call[c].identifier)
                      = RecordsNotOf(pre[c], call[c].identifier)

\* A setup on a file that held two records of other identifiers, one of
\* them without identifier.
C3_Witness ==
    \E c \in Callers :
        /\ Finished(c, "setup") /\ IsStore(pre[c])
        /\ Len(RecordsNotOf(pre[c], call[c].identifier)) = 2
        /\ \E i \in 1..Len(Records(pre[c])) : IdentOf(Records(pre[c])[i]) = PyNone
        /\ \E i \in 1..Len(Records(pre[c])) :
               /\ "password" \in DOMAIN Records(pre[c])[i].v
               /\ Records(pre[c])[i].v.password # PyStr(<<>>)

(***************************************************************************)
(* C4.  Errors of load: load(id) raises FileNotFoundError exactly when the *)
(* file does not exist; on a file that is a list of records none of which  *)
(* has identifier id it raises KeyError, whose message lists the           *)
(* identifier of every record of the file; Login.from_cookies is called in *)
(* neither case.                                                           *)
(***************************************************************************)
C4_LoadErrors ==
    \A c \in Callers :
        Finished(c, "load") =>
            /\ Raised(c, "FileNotFoundError") <=> ~pre[c].exists
            /\ (IsStore(pre[c]) /\ RecordsOf(pre[c], call[c].identifier) = <<>>) =>
                   /\ Raised(c, "KeyError")
                   /\ result[c].available = PyList(Idents(pre[c]))
            /\ (Raised(c, "FileNotFoundError") \/ Raised(c, "KeyError")) =>
                   handed[c] = PyNone

\* A load of an identifier the file does not hold, beside two it names.
C4_Witness ==
    \E c \in Callers :
        /\ Finished(c, "load") /\ Raised(c, "KeyError")
        /\ Len(result[c].available.v) = 2
        /\ result[c].available.v[1].t = "str"

(***************************************************************************)
(* C5.  list_sessions returns [] when there is no file and otherwise the   *)
(* identifiers in file order, which is the order of first insertion except *)
(* that a setup of an identifier already present moves it to the end (and  *)
(* a remove takes it out): after setup x, setup y, setup x it is [y, x].   *)
(***************************************************************************)
Without(q, x) == SelectSeq(q, LAMBDA e : e # x)

\* The order the rule gives after the writes h.
RECURSIVE OrderAfter(_)
OrderAfter(h) ==
    IF h = <<>> THEN <<>>
    ELSE LET before == OrderAfter(SubSeq(h, 1, Len(h) - 1))
             w      == h[Len(h)]
         IN  IF w.op = "setup"
             THEN Append(Without(before, PyStr(w.identifier)), PyStr(w.identifier))
             ELSE Without(before, PyStr(w.identifier))

C5_ListOrder ==
    \A c \in Callers :
        Finished(c, "list") =>
            /\ ~pre[c].exists => result[c] = Return(PyList(<<>>))
            /\ pre[c].exists =>
                   /\ IsStore(pre[c])
                   /\ result[c] = Return(PyList(Idents(pre[c])))
            /\ result[c] = Return(PyList(OrderAfter(hist)))

\* list_sessions after setup x, setup y, setup x.
C5_Witness ==
    \E c \in Callers :
        /\ Finished(c, "list")
        /\ hist = << [op |-> "setup", identifier |-> <<"x">>],
                     [op |-> "setup", identifier |-> <<"y">>],
                     [op |-> "setup", identifier |-> <<"x">>] >>
        /\ result[c] = Return(PyList(<< PyStr(<<"y">>), PyStr(<<"x">>) >>))

(***************************************************************************)
(* C6.  remove(id) on a list of records that holds id deletes every record *)
(* of id and writes the rest back, so that list_sessions no longer names   *)
(* id; a remove(id) on a file without id, as right after that one, raises  *)
(* KeyError.                                                               *)
(***************************************************************************)
C6_Remove ==
    \A c \in Callers :
        /\ (Finished(c, "remove") /\ IsStore(pre[c])) =>
               IF RecordsOf(pre[c], call[c].identifier) # <<>>
               THEN /\ result[c] = Return(PyNone)
                    /\ IsStore(file)
                    /\ RecordsOf(file, call[c].identifier) = <<>>
                    /\ Records(file) = RecordsNotOf(pre[c], call[c].identifier)
               ELSE Raised(c, "KeyError")
        /\ (Finished(c, "list") /\ IsStore(pre[c])) =>
               \A id \in IdentifierInputs :
                   RecordsOf(pre[c], id) = <<>> => Count(result[c].value.v, PyStr(id)) = 0

\* A remove(id) that raised KeyError, the last write to the file being a
\* remove(id) that left it empty.
C6_Witness ==
    \E c \in Callers :
        /\ Finished(c, "remove") /\ Raised(c, "KeyError")
        /\ hist = << [op |-> "remove", identifier |-> call[c].identifier] >>
        /\ pre[c] = write_json(PyList(<<>>))

(***************************************************************************)
(* C7.  A remove that fails changes nothing: without a file it raises      *)
(* FileNotFoundError and creates none; on a list of records without the    *)
(* identifier it raises KeyError, the file is as before and was never      *)
(* opened for writing.                                                     *)
(***************************************************************************)
C7_FailedRemove ==
    \A c \in Callers :
        /\ Finished(c, "remove") =>
               /\ ~pre[c].exists => Raised(c, "FileNotFoundError") /\ ~file.exists
               /\ (IsStore(pre[c]) /\ RecordsOf(pre[c], call[c].identifier) = <<>>) =>
                      Raised(c, "KeyError") /\ file = pre[c]
        /\ (call[c].op = "remove" /\ pc[c] \in {"remove:open", "remove:dump"}) =>
               IsStore(pre[c]) /\ RecordsOf(pre[c], call[c].identifier) # <<>>

\* A remove that raised KeyError on a file of two records.
C7_Witness ==
    \E c \in Callers :
        /\ Finished(c, "remove") /\ Raised(c, "KeyError")
        /\ IsStore(pre[c]) /\ Len(Records(pre[c])) = 2 /\ file = pre[c]

(***************************************************************************)
(* C8.  Corrupt-file tolerance of setup: whenever the file that exists     *)
(* before the call does not parse as a JSON array of record objects, setup *)
(* raises no error because of it and leaves a file that holds only the new *)
(* record.                                                                 *)
(***************************************************************************)
C8_CorruptTolerated ==
    \A c \in Callers :
        (Finished(c, "setup") /\ Malformed(pre[c])) =>
            /\ SetupRan(c)
            /\ IsStore(file) /\ Len(Records(file)) = 1
            /\ IsRecordOf(Records(file)[1], call[c])

\* What remains of C8 on a file that is not JSON at all.
InvalidJsonTolerated ==
    \A c \in Callers :
        (Finished(c, "setup") /\ InvalidJson(pre[c])) =>
            /\ SetupRan(c)
            /\ IsStore(file) /\ Len(Records(file)) = 1
            /\ IsRecordOf(Records(file)[1], call[c])

(***************************************************************************)
(* C9.  Lost updates: nothing serialises two callers, so two setups that   *)
(* both read the file before either writes leave only the last writer's    *)
(* view (C9_LostUpdate is such a state); a setup or remove that runs with  *)
(* no other call in progress loses nothing: the file it writes is the file *)
(* it found, without the records of its identifier, plus (for setup) its   *)
(* own record.                                                             *)
(***************************************************************************)
\* The records of the file a call found, [] when there was none.
Found(c) == IF pre[c].exists THEN Records(pre[c]) ELSE <<>>

C9_AloneLosesNothing ==
    [][\A c \in Callers :
        /\ (pc[c] = "setup:dump" /\ pc'[c] # "setup:dump" /\ alone[c]) =>
               /\ IsStore(file')
               /\ Len(Records(file')) >= 1
               /\ SubSeq(Records(file'), 1, Len(Records(file')) - 1)
                      = SelectSeq(Found(c), LAMBDA r : IdentOf(r) # PyStr(call[c].identifier))
               /\ IsRecordOf(Records(file')[Len(Records(file'))], call[c])
        /\ (pc[c] = "remove:dump" /\ pc'[c] # "remove:dump" /\ alone[c]) =>
               /\ IsStore(file')
               /\ Records(file')
                      = SelectSeq(Found(c), LAMBDA r : IdentOf(r) # PyStr(call[c].identifier))
      ]_vars

\* Both callers have finished a setup, of x and of y, each begun on the
\* empty store, and the file holds one record only.
C9_LostUpdate ==
    /\ Finished(1, "setup") /\ Finished(2, "setup")
    /\ call[1].identifier = <<"x">> /\ call[2].identifier = <<"y">>
    /\ pre[1] = write_json(PyList(<<>>)) /\ pre[2] = write_json(PyList(<<>>))
    /\ IsStore(file) /\ Len(Records(file)) = 1

(***************************************************************************)
(* C10.  File lifecycle: starting without a file, the file exists exactly  *)
(* from the first setup's open for writing on, and the first write is a    *)
(* setup's; no operation deletes it.  Removing the last record leaves the  *)
(* empty array: list_sessions then returns [] and load raises KeyError,    *)
(* not FileNotFoundError.                                                  *)
(***************************************************************************)
C10_Lifecycle ==
    /\ file.exists <=> (hist # <<>> \/ \E c \in Callers : pc[c] = "setup:dump")
    /\ hist # <<>> => hist[1].op = "setup"
    /\ \A c \in Callers :
        /\ (Finished(c, "remove") /\ result[c].ok
            /\ Len(RecordsOf(pre[c], call[c].identifier)) = Len(Records(pre[c]))) =>
               file = write_json(PyList(<<>>))
        /\ (Finished(c, "list") /\ pre[c] = write_json(PyList(<<>>))) =>
               result[c] = Return(PyList(<<>>))
        /\ (Finished(c, "load") /\ pre[c] = write_json(PyList(<<>>))) =>
               Raised(c, "KeyError")

\* A load that raised KeyError after setup x, remove x.
C10_Witness ==
    \E c \in Callers :
        /\ Finished(c, "load") /\ Raised(c, "KeyError")
        /\ hist = << [op |-> "setup", identifier |-> <<"x">>],
                     [op |-> "remove", identifier |-> <<"x">>] >>
        /\ file = write_json(PyList(<<>>))

(***************************************************************************)
(* C11.  load and list_sessions only read: however the call ends (a        *)
(* handle, a list, FileNotFoundError, KeyError, a parse failure), the file *)
(* exists or not, and holds, what it did before the call, at every         *)
(* statement of the call; neither creates a missing file.                  *)
(***************************************************************************)
C11_ReadOnly ==
    \A c \in Callers :
        call[c].op \in {"load", "list"} => file = pre[c]

\* A list_sessions that returned [] for want of a file, which is still
\* missing.
C11_Witness ==
    \E c \in Callers :
        /\ Finished(c, "list") /\ result[c] = Return(PyList(<<>>))
        /\ ~pre[c].exists /\ ~file.exists

Writing == \E d \in Callers : pc[d] \in {"setup:dump", "remove:dump"}

Duplicated(f, id) == IsStore(f) /\ Len(RecordsOf(f, id)) >= 2

C14_Duplicates ==
    \A c \in Callers :
        /\ (Finished(c, "load") /\ Duplicated(pre[c], call[c].identifier)) =>
               /\ result[c].ok \/ Raised(c, "LoginError")
               /\ handed[c] = RecordsOf(pre[c], call[c].identifier)[1]
        /\ Finished(c, "list") =>
               \A id \in IdentifierInputs :
                   Duplicated(pre[c], id) =>
                       /\ result[c].ok
                       /\ Count(result[c].value.v, PyStr(id)) = Len(RecordsOf(pre[c], id))
        /\ (Finished(c, "setup") /\ Duplicated(pre[c], call[c].identifier)) =>
               /\ SetupRan(c)
               /\ IsStore(file)
               /\ Len(RecordsOf(file, call[c].identifier)) = 1
               /\ RecordsNotOf(file, call[c].identifier)
                      = RecordsNotOf(pre[c], call[c].identifier)
        /\ (Finished(c, "remove") /\ Duplicated(pre[c], call[c].identifier)) =>
               /\ result[c] = Return(PyNone)
               /\ IsStore(file)
               /\ Len(RecordsOf(file, call[c].identifier)) = 0
               /\ RecordsNotOf(file, call[c].identifier)
                      = RecordsNotOf(pre[c], call[c].identifier)

\* load found two different records of the identifier and handed over the
\* first.
C14_Witness ==
    \E c \in Callers :
        /\ Finished(c, "load") /\ Duplicated(pre[c], call[c].identifier)
        /\ RecordsOf(pre[c], call[c].identifier)[1] # RecordsOf(pre[c], call[c].identifier)[2]
        /\ handed[c] = RecordsOf(pre[c], call[c].identifier)[1]

(***************************************************************************)
(* C15. setup persists before it constructs the client: the file is fully  *)
(* rewritten with the new record before load and Login.from_cookies are    *)
(* reached, so when Login.from_cookies fails and setup raises, the new     *)
(* record is stored all the same: list_sessions of that file contains the  *)
(* identifier and any previous record of it is replaced.                   *)
(***************************************************************************)
\* The file is a store whose last record is the one record of the identifier
\* of c's setup, built from its arguments, and list_sessions would report it.
Persisted(c) ==
    /\ IsStore(file)
    /\ RecordsOf(file, call[c].identifier) = <<Records(file)[Len(Records(file))]>>
    /\ IsRecordOf(Records(file)[Len(Records(file))], call[c])
    /\ LET listed == Identifiers(json_parse(file.doc))
       IN  listed.ok /\ Count(listed.value.v, PyStr(call[c].identifier)) = 1

C15_PersistsFirst ==
    \A c \in Callers :
        call[c].op = "setup" =>
            /\ pc[c] \in {"load:exists", "load:read", "load:factory"} => Persisted(c)
            /\ (pc[c] = "idle" /\ Raised(c, "LoginError")) =>
                   /\ Persisted(c)
                   /\ handed[c] = Records(file)[Len(Records(file))]

\* Login.from_cookies failed in a setup that found another record of the
\* identifier: the file holds the new record in its place.
C15_Witness ==
    \E c \in Callers :
        /\ Finished(c, "setup") /\ Raised(c, "LoginError")
        /\ IsStore(pre[c]) /\ Len(RecordsOf(pre[c], call[c].identifier)) = 1
        /\ ~IsRecordOf(RecordsOf(pre[c], call[c].identifier)[1], call[c])
        /\ Persisted(c) /\ file # pre[c]

(***************************************************************************)
(* C16. A record without the identifier field does not make list_sessions  *)
(* fail: list_sessions yields "?" at that record's position and the        *)
(* identifiers of the other records in file order; load never matches such *)
(* a record; setup and remove, for any string identifier, keep it as it    *)
(* is.                                                                     *)
(***************************************************************************)
Unlabelled(r) == "identifier" \notin DOMAIN r.v

\* The records of a store that have no identifier, in file order.
UnlabelledOf(f) == SelectSeq(Records(f), Unlabelled)

C16_Unlabelled ==
    \A c \in Callers :
        /\ (Finished(c, "list") /\ IsStore(pre[c])) =>
               /\ result[c].ok /\ result[c].value.t = "list"
               /\ Len(result[c].value.v) = Len(Records(pre[c]))
               /\ \A i \in 1..Len(Records(pre[c])) :
                      result[c].value.v[i] =
                          IF Unlabelled(Records(pre[c])[i]) THEN PyStr(<<"?">>)
                          ELSE Records(pre[c])[i].v.identifier
        /\ handed[c] # PyNone => ~Unlabelled(handed[c])
        /\ (Finished(c, "load") /\ IsStore(pre[c])
               /\ \A i \in 1..Len(Records(pre[c])) : Unlabelled(Records(pre[c])[i])) =>
               Raised(c, "KeyError")
        /\ ((Finished(c, "setup") \/ Finished(c, "remove")) /\ IsStore(pre[c])) =>
               /\ IsStore(file)
               /\ UnlabelledOf(file) = UnlabelledOf(pre[c])

\* list_sessions on a store that holds a record without identifier and one
\* with an identifier.
C16_Witness ==
    \E c \in Callers :
        /\ Finished(c, "list") /\ IsStore(pre[c]) /\ result[c].ok
        /\ \E i, j \in 1..Len(Records(pre[c])) :
               /\ Unlabelled(Records(pre[c])[i]) /\ result[c].value.v[i] = PyStr(<<"?">>)
               /\ ~Unlabelled(Records(pre[c])[j])
               /\ result[c].value.v[j] = Records(pre[c])[j].v.identifier

====
